---- MODULE Spec2Model ----
(***************************************************************************)
(* Model of src/rsa/public/exponent.rs: the RSA public exponent type and   *)
(* its validating decoder Exponent::from_be_bytes.                         *)
(*                                                                         *)
(* A u64 is modelled as its eight bytes, most significant first, so that   *)
(* the full 64-bit width is kept: `value << 8` drops the top byte and      *)
(* comparison is lexicographic.                                            *)
(***************************************************************************)
EXTENDS Integers, Sequences, FiniteSets, TLC

\* ------------------------------------------------------------------ bounds
\* longest input the untrusted peer sends (the decoder accepts at most 5)
MaxLen == 6

\* byte values the untrusted peer sends
ByteVals == {0, 1, 2, 3, 255}

\* byte values sent when the caller feeds returned exponents back as floors
ChainBytes == {0, 1, 2}

\* ------------------------------------------------------------ u64 helpers
\* 0u64
ZERO == <<0, 0, 0, 0, 0, 0, 0, 0>>

\* a < b on u64
Lt(a, b) == \E i \in 1..8 : a[i] < b[i] /\ \A j \in 1..(i - 1) : a[j] = b[j]

\* a <= b on u64
Le(a, b) == ~Lt(b, a)

\* variant: the accumulator is not shifted before the byte is or-ed in
ShlOr_noshift(value, byte) ==
  [value EXCEPT ![8] = IF byte > value[8] THEN byte ELSE value[8]]

\* (value << 8) | u64::from(byte), in 64 bits
ShlOr(value, byte) == Append(Tail(value), byte)

\* value & 1 != 1
IsEven(value) == value[8] % 2 /= 1

\* ------------------------------------------------------- named constants
Exponent_3 == <<0, 0, 0, 0, 0, 0, 0, 3>>

Exponent_65537 == <<0, 0, 0, 0, 0, 1, 0, 1>>

\* variant: the ceiling one bit short, (1u64 << 32) - 1
MAX_32 == <<0, 0, 0, 0, 255, 255, 255, 255>>

\* (1u64 << 33) - 1
MAX == <<0, 0, 0, 1, 255, 255, 255, 255>>

ALL_CONSTANTS == {Exponent_3, Exponent_65537, MAX}

\* input.len() > 5
MaxInputLen == 5

\* ---------------------------------------------------------------- results
Ok(v) == [kind |-> "Ok", value |-> v]

Err(k) == [kind |-> k, value |-> ZERO]

NoResult == [kind |-> "None", value |-> ZERO]

too_large == Err("TooLarge")

too_small == Err("TooSmall")

invalid_encoding == Err("InvalidEncoding")

invalid_component == Err("InvalidComponent")

\* ------------------------------------------------- untrusted::Reader use
\* variant: the length check lets one byte more through
TooLong_6(inp) == Len(inp) > MaxInputLen + 1

\* input.len() > 5
TooLong(inp) == Len(inp) > MaxInputLen

\* variant: the leading-zero test never fires
Peek_never(inp, i, b) == FALSE

\* input.peek(b): the next byte exists and equals b
Peek(inp, i, b) == i < Len(inp) /\ inp[i + 1] = b

\* input.read_byte() signals EndOfInput
EndOfInput(inp, i) == i >= Len(inp)

\* variant: at_end reports the end one byte late
AtEnd_late(inp, i) == i > Len(inp)

\* input.at_end()
AtEnd(inp, i) == i = Len(inp)

\* ------------------------------------------------------------- validation
\* variant: the parity check is missing
Validate_noparity(v, min) ==
  IF v = ZERO THEN too_small
  ELSE IF Lt(v, min) THEN too_small
  ELSE IF Lt(MAX, v) THEN too_large
  ELSE Ok(v)

\* variant: the parity check comes before the floor check
Validate_parityfirst(v, min) ==
  IF v = ZERO THEN too_small
  ELSE IF IsEven(v) THEN invalid_component
  ELSE IF Lt(v, min) THEN too_small
  ELSE IF Lt(MAX, v) THEN too_large
  ELSE Ok(v)

\* variant: the floor comparison is reversed
Validate_floorreversed(v, min) ==
  IF v = ZERO THEN too_small
  ELSE IF Lt(min, v) THEN too_small
  ELSE IF IsEven(v) THEN invalid_component
  ELSE IF Lt(MAX, v) THEN too_large
  ELSE Ok(v)

\* the checks after read_all, in source order
Validate(v, min) ==
  IF v = ZERO THEN too_small
  ELSE IF Lt(v, min) THEN too_small
  ELSE IF IsEven(v) THEN invalid_component
  ELSE IF Lt(MAX, v) THEN too_large
  ELSE Ok(v)

\* ------------------------------------------------- the decoder as a function
RECURSIVE ReadLoop(_, _, _)
\* the loop of the closure, from cursor i with accumulator v
ReadLoop(inp, i, v) ==
  IF EndOfInput(inp, i) THEN invalid_encoding
  ELSE LET v2 == ShlOr(v, inp[i + 1])
       IN  IF AtEnd(inp, i + 1) THEN Ok(v2) ELSE ReadLoop(inp, i + 1, v2)

\* Exponent::from_be_bytes(input, min_value)
from_be_bytes(inp, min) ==
  IF TooLong(inp) THEN too_large
  ELSE IF Peek(inp, 0, 0) THEN invalid_encoding
  ELSE LET r == ReadLoop(inp, 0, ZERO)
       IN  IF r.kind /= "Ok" THEN r ELSE Validate(r.value, min)

\* ------------------------------------------------------------------ state
VARIABLES
  input,      \* the bytes of the untrusted::Input of the call
  min_value,  \* the floor passed to the call
  pos,        \* the reader's cursor
  value,      \* the accumulator of the loop
  pc,         \* position inside from_be_bytes
  result,     \* what the call returned
  eoi,        \* read_byte signalled EndOfInput during the call
  held,       \* the Exponent the caller kept from its previous call, if any
  source,     \* the byte values the peer draws inputs from
  reuse       \* the caller passes returned exponents as later floors

vars == <<input, min_value, pos, value, pc, result, eoi, held, source, reuse>>

Inputs(S) == UNION {[1..n -> S] : n \in 0..MaxLen}

Start ==
  /\ input = <<>>
  /\ min_value = Exponent_3
  /\ pos = 0
  /\ value = ZERO
  /\ pc = "idle"
  /\ result = NoResult
  /\ eoi = FALSE
  /\ held = {}

Init == Start /\ source = ByteVals /\ reuse = FALSE

InitChain == Start /\ source = ChainBytes /\ reuse = TRUE

\* the exponents the caller holds and may pass as min_value
Floors == ALL_CONSTANTS \cup held

\* a caller invokes Exponent::from_be_bytes(input, min_value)
Call ==
  /\ pc = "idle"
  /\ \E inp \in Inputs(source), m \in Floors :
       /\ input' = inp
       /\ min_value' = m
  /\ pos' = 0
  /\ value' = ZERO
  /\ result' = NoResult
  /\ eoi' = FALSE
  /\ held' = {}
  /\ pc' = "len"
  /\ UNCHANGED <<source, reuse>>

\* if input.len() > 5 { return Err(too_large) }
CheckLen ==
  /\ pc = "len"
  /\ IF TooLong(input)
       THEN result' = too_large /\ pc' = "done"
       ELSE result' = result /\ pc' = "peek"
  /\ UNCHANGED <<input, min_value, pos, value, eoi, held, source, reuse>>

\* if input.peek(0) { return Err(invalid_encoding) }; let mut value = 0u64
PeekZero ==
  /\ pc = "peek"
  /\ IF Peek(input, pos, 0)
       THEN result' = invalid_encoding /\ pc' = "done"
       ELSE result' = result /\ pc' = "loop"
  /\ value' = ZERO
  /\ UNCHANGED <<input, min_value, pos, eoi, held, source, reuse>>

\* one iteration of the loop: read_byte, accumulate, test at_end
LoopStep ==
  /\ pc = "loop"
  /\ IF EndOfInput(input, pos)
       THEN /\ eoi' = TRUE
            /\ result' = invalid_encoding
            /\ pc' = "done"
            /\ UNCHANGED <<pos, value>>
       ELSE /\ value' = ShlOr(value, input[pos + 1])
            /\ pos' = pos + 1
            /\ pc' = IF AtEnd(input, pos + 1) THEN "read_all" ELSE "loop"
            /\ UNCHANGED <<eoi, result>>
  /\ UNCHANGED <<input, min_value, held, source, reuse>>

\* read_all: the closure returned Ok(value); reject an incomplete read
ReadAll ==
  /\ pc = "read_all"
  /\ IF AtEnd(input, pos)
       THEN result' = result /\ pc' = "validate"
       ELSE result' = invalid_encoding /\ pc' = "done"
  /\ UNCHANGED <<input, min_value, pos, value, eoi, held, source, reuse>>

\* the checks on the accumulated value and the return
Finish ==
  /\ pc = "validate"
  /\ result' = Validate(value, min_value)
  /\ pc' = "done"
  /\ UNCHANGED <<input, min_value, pos, value, eoi, held, source, reuse>>

\* the call has returned; the caller keeps a returned Exponent when it reuses
\* exponents as floors, and everything local to the call is dropped
Return ==
  /\ pc = "done"
  /\ held' = IF reuse /\ result.kind = "Ok" THEN {result.value} ELSE {}
  /\ input' = <<>>
  /\ min_value' = Exponent_3
  /\ pos' = 0
  /\ value' = ZERO
  /\ result' = NoResult
  /\ eoi' = FALSE
  /\ pc' = "idle"
  /\ UNCHANGED <<source, reuse>>

Next == Call \/ CheckLen \/ PeekZero \/ LoopStep \/ ReadAll \/ Finish \/ Return

Spec == Init /\ [][Next]_vars

SpecChain == InitChain /\ [][Next]_vars

\* ------------------------------------------------ notions the claims use
\* the number a big-endian byte string of at most 8 bytes denotes, as a u64
Pad(inp) == [i \in 1..(8 - Len(inp)) |-> 0] \o inp

RECURSIVE MinimalBE(_)
\* the minimal big-endian encoding of a u64: its bytes without leading zeros
MinimalBE(v) ==
  IF v = <<>> THEN <<>>
  ELSE IF Head(v) = 0 THEN MinimalBE(Tail(v)) ELSE v

\* nonzero, odd and within [3, 2^33 - 1]
IsValidExponent(e) ==
  /\ e /= <<0, 0, 0, 0, 0, 0, 0, 0>>
  /\ e[8] % 2 = 1
  /\ Le(<<0, 0, 0, 0, 0, 0, 0, 3>>, e)
  /\ Le(e, <<0, 0, 0, 1, 255, 255, 255, 255>>)

\* every Exponent that exists in the current state
Live ==
  ALL_CONSTANTS \cup held \cup {min_value}
    \cup (IF result.kind = "Ok" THEN {result.value} ELSE {})

\* further valid floors, below and between the named constants: 5 and 257
OtherFloors == {<<0, 0, 0, 0, 0, 0, 0, 5>>, <<0, 0, 0, 0, 0, 0, 1, 1>>}

\* ------------------------------------------------------------------ claims

\* C1: over any sequence of calls whose floors are the named constants or
\* exponents returned earlier, every Exponent that exists is nonzero, odd and
\* within [3, 2^33 - 1], and a returned value is at least the floor of its call.
C1_ExponentsValid ==
  /\ \A e \in Live : IsValidExponent(e)
  /\ result.kind = "Ok" => Le(min_value, result.value)

\* a call whose floor is an exponent returned by an earlier call has succeeded
C1_Witness ==
  /\ pc = "done"
  /\ result.kind = "Ok"
  /\ min_value \notin ALL_CONSTANTS
  /\ result.value /= min_value

\* C2: every input longer than 5 bytes is rejected as too large, whatever its
\* bytes and whatever the floor.
C2_LongInputTooLarge ==
  (pc = "done" /\ Len(input) > 5) => result = too_large

\* a 6-byte input with a leading zero byte has been rejected as too large
C2_Witness ==
  /\ pc = "done"
  /\ Len(input) > 5
  /\ input[1] = 0
  /\ result = too_large

\* C3 as stated: every non-empty input whose first byte is 0x00 is rejected as
\* an invalid encoding.
C3_Original ==
  (pc = "done" /\ Len(input) > 0 /\ input[1] = 0) => result = invalid_encoding

\* C3 amended: every input of 1 to 5 bytes whose first byte is 0x00 is rejected
\* as an invalid encoding.
C3_LeadingZeroInvalidEncoding ==
  (pc = "done" /\ Len(input) \in 1..5 /\ input[1] = 0)
    => result = invalid_encoding

\* 65537 with a leading zero byte has been rejected as an invalid encoding
C3_Witness ==
  /\ pc = "done"
  /\ input = <<0, 1, 0, 1>>
  /\ result = invalid_encoding

\* C4: round trip: the minimal big-endian encoding of a valid exponent v
\* decodes to v under every floor min_value <= v.
C4_RoundTrip ==
  pc = "done" =>
    LET v == Pad(input)
    IN  (IsValidExponent(v) /\ input = MinimalBE(v) /\ Le(min_value, v))
          => result = Ok(v)

\* the encoding of 65537 has been decoded under the floor 65537
C4_Witness ==
  /\ pc = "done"
  /\ input = <<1, 0, 1>>
  /\ min_value = Exponent_65537
  /\ result = Ok(Exponent_65537)

\* C5 as stated: under the floor 3 the encoding of 2^33 - 1 is accepted and
\* the encoding of 2^33 is rejected as too large.
C5_Original ==
  (pc = "done" /\ min_value = Exponent_3) =>
    /\ input = <<1, 255, 255, 255, 255>> => result.kind = "Ok"
    /\ input = <<2, 0, 0, 0, 0>> => result = too_large

\* C5 amended: under the floor 3 the encoding of 2^33 - 1 is accepted and the
\* encoding of 2^33 is rejected as an invalid component.
C5_Boundary ==
  (pc = "done" /\ min_value = Exponent_3) =>
    /\ input = <<1, 255, 255, 255, 255>> => result.kind = "Ok"
    /\ input = <<2, 0, 0, 0, 0>> => result = invalid_component

\* the encoding of 2^33 - 1 has been accepted under the floor 3
C5_Witness ==
  /\ pc = "done"
  /\ min_value = Exponent_3
  /\ input = <<1, 255, 255, 255, 255>>
  /\ result = Ok(<<0, 0, 0, 1, 255, 255, 255, 255>>)

\* C6: monotonicity in the floor: when a call succeeds under the floor m1,
\* decoding the same bytes under any valid floor m2 <= m1 gives the same value.
C6_FloorMonotone ==
  (pc = "done" /\ result.kind = "Ok") =>
    \A m2 \in ALL_CONSTANTS \cup OtherFloors \cup {min_value} :
      Le(m2, min_value) => from_be_bytes(input, m2) = result

\* a call under the floor 65537 has succeeded, and lower floors exist
C6_Witness ==
  /\ pc = "done"
  /\ result.kind = "Ok"
  /\ min_value = Exponent_65537
  /\ Lt(Exponent_65537, result.value)

\* C7 as stated: the input [0x02] under the floor 3 is rejected as an invalid
\* component.
C7_Original ==
  (pc = "done" /\ input = <<2>> /\ min_value = Exponent_3)
    => result = invalid_component

\* C7 amended: the input [0x02] under the floor 3 is rejected as too small.
C7_TwoTooSmall ==
  (pc = "done" /\ input = <<2>> /\ min_value = Exponent_3)
    => result = too_small

\* the input [0x02] has been rejected as too small under the floor 3
C7_Witness ==
  /\ pc = "done"
  /\ input = <<2>>
  /\ min_value = Exponent_3
  /\ result = too_small

\* C8: for an input of 1 to 5 bytes with a nonzero first byte and value v, the
\* outcome is the first matching case of: v = 0 too small, v < min_value too
\* small, v even invalid component, v > 2^33 - 1 too large, else success v.
C8_ValidationOrder ==
  (pc = "done" /\ Len(input) \in 1..5 /\ input[1] /= 0) =>
    LET v == Pad(input)
    IN  result =
          IF v = <<0, 0, 0, 0, 0, 0, 0, 0>> THEN too_small
          ELSE IF Lt(v, min_value) THEN too_small
          ELSE IF v[8] % 2 = 0 THEN invalid_component
          ELSE IF Lt(<<0, 0, 0, 1, 255, 255, 255, 255>>, v) THEN too_large
          ELSE Ok(v)

\* 65536, even and below the floor 65537, has been rejected as too small
C8_Witness ==
  /\ pc = "done"
  /\ input = <<1, 0, 0>>
  /\ min_value = Exponent_65537
  /\ result = too_small

\* C9 as stated: for every input of at most 5 bytes read_byte never signals
\* end of input.
C9_Original == Len(input) <= 5 => ~eoi

\* C9 amended: for every input of 1 to 5 bytes read_byte never signals end of
\* input, the loop runs only while bytes remain and it ends exactly when the
\* cursor is at the end of the input; on the empty input the first read_byte
\* signals end of input and the call is rejected as an invalid encoding.
C9_NoReadPastEnd ==
  /\ Len(input) \in 1..5 => ~eoi
  /\ (pc = "done" /\ input = <<>>) => (eoi /\ result = invalid_encoding)
  /\ (pc = "loop" /\ Len(input) > 0) => pos < Len(input)
  /\ pc \in {"read_all", "validate"} => pos = Len(input)

\* the loop has consumed a 5-byte input and ended at its end
C9_Witness ==
  /\ pc = "read_all"
  /\ Len(input) = 5
  /\ pos = 5
  /\ ~eoi

\* C10: canonical encoding: an accepted input is the minimal big-endian
\* encoding of the returned value, so two distinct inputs never yield the same
\* value; in particular the same bytes behind a zero byte are not accepted.
C10_Canonical ==
  (pc = "done" /\ result.kind = "Ok") =>
    /\ input = MinimalBE(result.value)
    /\ \A m2 \in ALL_CONSTANTS :
         from_be_bytes(<<0>> \o input, m2).kind /= "Ok"

\* a multi-byte input with inner zero bytes has been accepted
C10_Witness ==
  /\ pc = "done"
  /\ result.kind = "Ok"
  /\ Len(input) = 5
  /\ input[2] = 0

====
